---- MODULE Spec2Model ----
(***************************************************************************)
(* Model of the Atlassian tool layer: configuration from the environment,  *)
(* the authenticated request client, the Jira and Confluence domain        *)
(* clients and the JiraTools / ConfluenceTools business layer.             *)
(*                                                                         *)
(* Python values are modelled as follows.                                  *)
(*   str        a sequence of tokens (pieces of text); an f-string is the  *)
(*              concatenation of its pieces, "x in s" is token membership  *)
(*   None       the reserved value None below (distinct from every str)    *)
(*   Optional   int: the empty set for None, {n} for n                     *)
(*   dict/list  JSON values, tagged records built by JObj / JArr / JNull   *)
(*   exception  a record [type, msg, status_code, response_data]           *)
(***************************************************************************)
EXTENDS Integers, Sequences, FiniteSets, TLC

\* ---------------------------------------------------------------- values

None == <<"<None>">>

Empty == <<>>

\* Python truthiness of an Optional[str]
Truthy(v) == v # None /\ v # Empty

\* Python "a or b" on Optional[str]
PyOr(a, b) == IF Truthy(a) THEN a ELSE b

\* "tok in s" for a str
Contains(s, tok) == \E i \in DOMAIN s : s[i] = tok

\* str(v) inside an f-string
Fmt(v) == IF v = None THEN <<"None">> ELSE v

JNull == [j |-> "null"]

JObj(f) == [j |-> "object", f |-> f]

JArr(a) == [j |-> "array", a |-> a]

JBool(b) == [j |-> "bool", b |-> b]

IsObj(v) == v.j = "object"

IsArr(v) == v.j = "array"

HasKey(v, k) == IsObj(v) /\ k \in DOMAIN v.f

\* ------------------------------------------------------------ exceptions

AuthenticationErrorC(msg) ==
    [type |-> "AuthenticationError", msg |-> msg, status_code |-> {}, response_data |-> JNull]

APIErrorC(msg, status_code, response_data) ==
    [type |-> "APIError", msg |-> msg, status_code |-> status_code, response_data |-> response_data]

\* an exception that is no AtlassianError (ValueError, AttributeError, ...)
OtherErrorC(type, msg) ==
    [type |-> type, msg |-> msg, status_code |-> {}, response_data |-> JNull]

Ok(v) == [ok |-> TRUE, value |-> v]

Raise(e) == [ok |-> FALSE, exc |-> e]

\* --------------------------------------------------------- configuration

Backends == {"jira", "confluence"}

UrlKey(b) == IF b = "jira" THEN "JIRA_URL" ELSE "CONFLUENCE_URL"

OAuthKey(b) == IF b = "jira" THEN "ATLASSIAN_OAUTH_TOKEN" ELSE "CONFLUENCE_OAUTH_TOKEN"

SharedKeys == {"ATLASSIAN_USERNAME", "ATLASSIAN_PASSWORD", "ATLASSIAN_API_TOKEN"}

EnvKeys == {UrlKey(b) : b \in Backends} \cup {OAuthKey(b) : b \in Backends} \cup SharedKeys

\* the keys one backend's from_env reads
KeysOf(b) == {UrlKey(b), OAuthKey(b)} \cup SharedKeys

CloudUrl == <<"https://x.", "atlassian.net">>

ServerUrl == <<"https://jira.example.com">>

\* the values a key of the environment takes in the model (None: not set)
EnvValues(k) ==
    CASE k = "JIRA_URL" -> {None, CloudUrl, ServerUrl}
      [] k = "CONFLUENCE_URL" -> {None, CloudUrl}
      [] k = "ATLASSIAN_USERNAME" -> {None, <<"alice">>}
      [] k = "ATLASSIAN_PASSWORD" -> {None, <<"pw">>}
      [] k = "ATLASSIAN_API_TOKEN" -> {None, <<"tok">>}
      [] OTHER -> {None, <<"oauth">>}

\* os.environ.get(key, default)
EnvGet(e, k, default) == IF e[k] = None THEN default ELSE e[k]

JiraConfig_from_env(e) ==
    [url |-> EnvGet(e, "JIRA_URL", Empty),
     username |-> EnvGet(e, "ATLASSIAN_USERNAME", None),
     password |-> EnvGet(e, "ATLASSIAN_PASSWORD", None),
     token |-> EnvGet(e, "ATLASSIAN_API_TOKEN", None),
     oauth_token |-> EnvGet(e, "ATLASSIAN_OAUTH_TOKEN", None)]

ConfluenceConfig_from_env(e) ==
    [url |-> EnvGet(e, "CONFLUENCE_URL", Empty),
     username |-> EnvGet(e, "ATLASSIAN_USERNAME", None),
     password |-> EnvGet(e, "ATLASSIAN_PASSWORD", None),
     token |-> EnvGet(e, "ATLASSIAN_API_TOKEN", None),
     oauth_token |-> EnvGet(e, "CONFLUENCE_OAUTH_TOKEN", None)]

from_env(b, e) == IF b = "jira" THEN JiraConfig_from_env(e) ELSE ConfluenceConfig_from_env(e)

\* (variant: the credentials are not looked at)
JiraConfig_is_auth_configured_url_only(c) == Truthy(c.url)

JiraConfig_is_auth_configured(c) ==
    Truthy(c.url) /\ (\/ (Truthy(c.username) /\ Truthy(c.password))
                      \/ (Truthy(c.username) /\ Truthy(c.token))
                      \/ Truthy(c.oauth_token))

\* (variant: the username + token pair is forgotten)
ConfluenceConfig_is_auth_configured_no_token(c) ==
    Truthy(c.url) /\ (\/ (Truthy(c.username) /\ Truthy(c.password))
                      \/ Truthy(c.oauth_token))

ConfluenceConfig_is_auth_configured(c) ==
    Truthy(c.url) /\ (\/ (Truthy(c.username) /\ Truthy(c.password))
                      \/ (Truthy(c.username) /\ Truthy(c.token))
                      \/ Truthy(c.oauth_token))

is_auth_configured(b, c) ==
    IF b = "jira" THEN JiraConfig_is_auth_configured(c)
    ELSE ConfluenceConfig_is_auth_configured(c)

is_cloud(c) == IF Truthy(c.url) THEN Contains(c.url, "atlassian.net") ELSE FALSE

\* ------------------------------------------------- remote side (requests)

\* what the remote answers: no answer at all (connection refused, timeout,
\* DNS failure), or a status with a body
BodyKinds == {"empty", "invalid", "list", "object", "results0", "results1"}

ErrorBodyKinds == {"empty", "invalid", "object"}

\* the statuses of the model: 200 with any body, a 1xx and a 3xx status,
\* 401, 403 and two other failures
OtherStatuses == {101, 304}

OtherBodyKinds == {"empty", "object"}

ErrorStatuses == {401, 403, 404, 500}

Responses ==
    {[fail |-> TRUE]}
    \cup {[fail |-> FALSE, status |-> 200, body |-> k] : k \in BodyKinds}
    \cup {[fail |-> FALSE, status |-> s, body |-> k] : s \in OtherStatuses, k \in OtherBodyKinds}
    \cup {[fail |-> FALSE, status |-> s, body |-> k] : s \in ErrorStatuses, k \in ErrorBodyKinds}

\* requests raises its own JSONDecodeError (a RequestException) from
\* Response.json() since 2.27 and a plain ValueError before: either build
JsonErrorKinds == {"RequestException", "ValueError"}

Entity ==
    JObj([id |-> <<"1001">>, title |-> <<"Remote title">>,
          version |-> JObj([number |-> 3])])

\* the parsed value of a body that is JSON
RemoteJson(kind) ==
    CASE kind = "list" -> JArr(<<Entity>>)
      [] kind = "object" -> Entity
      [] kind = "results0" -> JObj([results |-> JArr(<<>>)])
      [] kind = "results1" -> JObj([results |-> JArr(<<Entity>>)])

\* (variant: only server errors raise)
raise_for_status_5xx(resp) == 500 =< resp.status /\ resp.status < 600

\* Response.raise_for_status(): HTTPError for 400 <= status < 600
raise_for_status(resp) == 400 =< resp.status /\ resp.status < 600

HTTPErrorText(resp) == <<ToString(resp.status), " Error for url">>

\* --------------------------------------------------------- request client

NoBasic == [username |-> None, password |-> None]

JsonHeaders == ("Accept" :> <<"application/json">>) @@ ("Content-Type" :> <<"application/json">>)

\* (variant: Basic credentials win over the oauth token)
setup_auth_basic_first(config) ==
    IF Truthy(config.username) /\ (Truthy(config.password) \/ Truthy(config.token))
    THEN Ok([auth |-> [username |-> config.username,
                       password |-> PyOr(config.token, config.password)],
             headers |-> JsonHeaders])
    ELSE IF Truthy(config.oauth_token)
    THEN Ok([auth |-> NoBasic,
             headers |-> ("Authorization" :> (<<"Bearer ">> \o config.oauth_token)) @@ JsonHeaders])
    ELSE Raise(AuthenticationErrorC(<<"No valid ", "authentication", " method configured">>))

\* the session after _setup_auth, or the error it raises
setup_auth(config) ==
    IF Truthy(config.oauth_token)
    THEN Ok([auth |-> NoBasic,
             headers |-> ("Authorization" :> (<<"Bearer ">> \o config.oauth_token)) @@ JsonHeaders])
    ELSE IF Truthy(config.username) /\ (Truthy(config.password) \/ Truthy(config.token))
    THEN Ok([auth |-> [username |-> config.username,
                       password |-> PyOr(config.token, config.password)],
             headers |-> JsonHeaders])
    ELSE Raise(AuthenticationErrorC(<<"No valid ", "authentication", " method configured">>))

\* BaseAtlassianClient(config): the client with session number id, or the error
BaseAtlassianClient_init(config, id) ==
    LET s == setup_auth(config)
    IN IF s.ok THEN Ok([id |-> id, config |-> config, session |-> s.value])
       ELSE s

\* (variant: one token at most is stripped)
rstrip_one(s, tok) ==
    IF s # <<>> /\ s[Len(s)] = tok THEN SubSeq(s, 1, Len(s) - 1) ELSE s

\* str.rstrip(tok), str.lstrip(tok): every tok at that end is stripped
RECURSIVE rstrip(_, _)
rstrip(s, tok) ==
    IF s # <<>> /\ s[Len(s)] = tok THEN rstrip(SubSeq(s, 1, Len(s) - 1), tok) ELSE s

RECURSIVE lstrip(_, _)
lstrip(s, tok) ==
    IF s # <<>> /\ s[1] = tok THEN lstrip(Tail(s), tok) ELSE s

\* (variant: the two are joined as they are)
RequestUrl_as_given(config, endpoint) == config.url \o <<"/">> \o endpoint

RequestUrl(config, endpoint) == rstrip(config.url, "/") \o <<"/">> \o lstrip(endpoint, "/")

\* the value _make_request returns, or the exception it raises, for the
\* remote's answer resp under the build's kind of JSON error
make_request_outcome(resp, lib) ==
    IF resp.fail
    THEN Raise(APIErrorC(<<"Network error: ", "connection failed">>, {}, JNull))
    ELSE IF raise_for_status(resp)
    THEN IF resp.status = 401
         THEN Raise(AuthenticationErrorC(<<"Authentication", " failed: ">> \o HTTPErrorText(resp)))
         ELSE IF resp.status = 403
         THEN Raise(AuthenticationErrorC(<<"Access denied: ">> \o HTTPErrorText(resp)))
         ELSE Raise(APIErrorC(<<"API request failed: ">> \o HTTPErrorText(resp),
                              {resp.status},
                              IF resp.body \in {"empty", "invalid"} THEN JObj(<<>>)
                              ELSE RemoteJson(resp.body)))
    ELSE IF resp.body = "empty" THEN Ok(JObj(<<>>))
    ELSE IF resp.body = "invalid"
    THEN IF lib = "RequestException"
         THEN Raise(APIErrorC(<<"Network error: ", "invalid JSON">>, {}, JNull))
         ELSE Raise(OtherErrorC("ValueError", <<"Expecting value">>))
    ELSE Ok(RemoteJson(resp.body))

\* (variant: a failed attempt is followed by a second one)
request_attempts_retry(resp) == IF resp.fail \/ raise_for_status(resp) THEN 2 ELSE 1

\* how often _make_request calls session.request for one call of a verb: the
\* call stands once in the try block, in no loop, and the session has the
\* adapters requests gives it, which do not retry
request_attempts(resp) == 1

\* _make_request: the request sent on the client's session and its outcome
make_request(cl, method, endpoint, kwargs, resp, lib) ==
    [req |-> [method |-> method, url |-> RequestUrl(cl.config, endpoint),
              kwargs |-> kwargs, session |-> cl.id],
     out |-> make_request_outcome(resp, lib)]

\* truthiness of a dict or list argument
JTruthy(v) ==
    CASE v.j = "object" -> DOMAIN v.f # {}
      [] v.j = "array" -> v.a # <<>>
      [] OTHER -> FALSE

BodyKwargs(data, json_data) ==
    (IF JTruthy(json_data) THEN ("json" :> json_data) ELSE <<>>)
    @@ (IF JTruthy(data) THEN ("data" :> data) ELSE <<>>)

get(cl, endpoint, params, resp, lib) ==
    make_request(cl, "GET", endpoint, ("params" :> params), resp, lib)

post(cl, endpoint, data, json_data, resp, lib) ==
    make_request(cl, "POST", endpoint, BodyKwargs(data, json_data), resp, lib)

put(cl, endpoint, data, json_data, resp, lib) ==
    make_request(cl, "PUT", endpoint, BodyKwargs(data, json_data), resp, lib)

delete(cl, endpoint, resp, lib) ==
    make_request(cl, "DELETE", endpoint, <<>>, resp, lib)

\* ------------------------------------------------------ small str helpers

FirstIndex(s, tok) == CHOOSE i \in DOMAIN s : s[i] = tok /\ \A k \in 1..(i - 1) : s[k] # tok

\* s.split(sep): the list of the pieces between the separators
RECURSIVE Split(_, _)
Split(s, sep) ==
    IF ~Contains(s, sep) THEN <<s>>
    ELSE LET i == FirstIndex(s, sep)
         IN <<SubSeq(s, 1, i - 1)>> \o Split(SubSeq(s, i + 1, Len(s)), sep)

\* sep.join(list)
RECURSIVE Join(_, _)
Join(list, sep) ==
    IF list = <<>> THEN <<>>
    ELSE IF Len(list) = 1 THEN list[1]
    ELSE list[1] \o <<sep>> \o Join(Tail(list), sep)

\* value.get(key, default) on a parsed JSON value: AttributeError unless a dict
DictGet(v, k, default) ==
    IF ~IsObj(v) THEN Raise(OtherErrorC("AttributeError", <<"object has no attribute 'get'">>))
    ELSE IF k \in DOMAIN v.f THEN Ok(v.f[k]) ELSE Ok(default)

\* ------------------------------------------------------- Jira domain client

\* (variant: the API version does not follow the URL)
JiraClient_init_v2(config, id) ==
    LET base == BaseAtlassianClient_init(config, id)
    IN IF base.ok
       THEN Ok([id |-> id, config |-> config, session |-> base.value.session,
                api_base |-> <<"rest/api/2">>])
       ELSE base

JiraClient_init(config, id) ==
    LET base == BaseAtlassianClient_init(config, id)
    IN IF base.ok
       THEN Ok([id |-> id, config |-> config, session |-> base.value.session,
                api_base |-> IF is_cloud(config) THEN <<"rest/api/3">> ELSE <<"rest/api/2">>])
       ELSE base

\* (variant: the text node stands in the document without its paragraph)
DocBody_no_paragraph(text) ==
    JObj([type |-> <<"doc">>, version |-> 1,
          content |-> JArr(<<JObj([type |-> <<"text">>, text |-> text])>>)])

\* the Atlassian document wrapping a text
DocBody(text) ==
    JObj([type |-> <<"doc">>, version |-> 1,
          content |-> JArr(<<JObj([type |-> <<"paragraph">>,
                                   content |-> JArr(<<JObj([type |-> <<"text">>,
                                                            text |-> text])>>)])>>)])

JiraClient_get_issue(cl, issue_key, fields, expand, resp, lib) ==
    LET params == (IF JTruthy(fields) THEN ("fields" :> Join(fields.a, ",")) ELSE <<>>)
                  @@ (IF Truthy(expand) THEN ("expand" :> expand) ELSE <<>>)
    IN get(cl, cl.api_base \o <<"/issue/">> \o Fmt(issue_key), JObj(params), resp, lib)

JiraClient_search_issues(cl, jql, fields, start_at, max_results, resp, lib) ==
    LET data == [jql |-> jql, startAt |-> start_at, maxResults |-> max_results]
                @@ (IF JTruthy(fields) THEN ("fields" :> fields) ELSE <<>>)
    IN post(cl, cl.api_base \o <<"/search">>, JNull, JObj(data), resp, lib)

\* kwargs: the keyword arguments given, a function from their names
JiraClient_create_issue(cl, project_key, summary, issue_type, kwargs, resp, lib) ==
    LET fields == [project |-> JObj([key |-> project_key]),
                   summary |-> summary,
                   issuetype |-> JObj([name |-> issue_type])]
                  @@ (IF "description" \in DOMAIN kwargs
                      THEN ("description" :> DocBody(kwargs["description"])) ELSE <<>>)
                  @@ (IF "assignee" \in DOMAIN kwargs
                      THEN IF is_cloud(cl.config)
                           THEN ("assignee" :> JObj([id |-> kwargs["assignee"]]))
                           ELSE ("assignee" :> JObj([name |-> kwargs["assignee"]]))
                      ELSE <<>>)
    IN post(cl, cl.api_base \o <<"/issue">>, JNull, JObj([fields |-> JObj(fields)]), resp, lib)

JiraClient_update_issue(cl, issue_key, fields, resp, lib) ==
    put(cl, cl.api_base \o <<"/issue/">> \o Fmt(issue_key), JNull,
        JObj([fields |-> fields]), resp, lib)

\* (variant: "except AtlassianError", every typed error gives false)
JiraClient_delete_issue_except_all(cl, issue_key, resp, lib) ==
    LET r == delete(cl, cl.api_base \o <<"/issue/">> \o Fmt(issue_key), resp, lib)
    IN [req |-> r.req,
        out |-> IF r.out.ok THEN Ok(TRUE)
                ELSE IF r.out.exc.type \in {"APIError", "AuthenticationError"} THEN Ok(FALSE)
                ELSE r.out]

\* out: Ok(TRUE), Ok(FALSE) after an APIError, or the other exception
JiraClient_delete_issue(cl, issue_key, resp, lib) ==
    LET r == delete(cl, cl.api_base \o <<"/issue/">> \o Fmt(issue_key), resp, lib)
    IN [req |-> r.req,
        out |-> IF r.out.ok THEN Ok(TRUE)
                ELSE IF r.out.exc.type = "APIError" THEN Ok(FALSE)
                ELSE r.out]

JiraClient_add_comment(cl, issue_key, comment, resp, lib) ==
    post(cl, cl.api_base \o <<"/issue/">> \o Fmt(issue_key) \o <<"/comment">>, JNull,
         JObj([body |-> DocBody(comment)]), resp, lib)

JiraClient_get_transitions(cl, issue_key, resp, lib) ==
    LET r == get(cl, cl.api_base \o <<"/issue/">> \o Fmt(issue_key) \o <<"/transitions">>,
                 JNull, resp, lib)
    IN [req |-> r.req,
        out |-> IF r.out.ok THEN DictGet(r.out.value, "transitions", JArr(<<>>)) ELSE r.out]

JiraClient_transition_issue(cl, issue_key, transition_id, fields, comment, resp, lib) ==
    LET data == [transition |-> JObj([id |-> transition_id])]
                @@ (IF JTruthy(fields) THEN ("fields" :> fields) ELSE <<>>)
                @@ (IF Truthy(comment)
                    THEN ("update" :> JObj([comment |->
                             JArr(<<JObj([add |-> JObj([body |-> DocBody(comment)])])>>)]))
                    ELSE <<>>)
    IN post(cl, cl.api_base \o <<"/issue/">> \o Fmt(issue_key) \o <<"/transitions">>, JNull,
            JObj(data), resp, lib)

JiraClient_get_projects(cl, resp, lib) ==
    LET r == get(cl, cl.api_base \o <<"/project">>, JNull, resp, lib)
    IN [req |-> r.req,
        out |-> IF r.out.ok
                THEN (IF IsArr(r.out.value) THEN r.out ELSE Ok(JArr(<<>>)))
                ELSE r.out]

JiraClient_get_user(cl, user_id, resp, lib) ==
    IF is_cloud(cl.config)
    THEN get(cl, cl.api_base \o <<"/user">>, JObj([accountId |-> user_id]), resp, lib)
    ELSE get(cl, cl.api_base \o <<"/user">>, JObj([username |-> user_id]), resp, lib)

\* ------------------------------------------------- Confluence domain client

ConfluenceClient_init(config, id) ==
    LET base == BaseAtlassianClient_init(config, id)
    IN IF base.ok
       THEN Ok([id |-> id, config |-> config, session |-> base.value.session,
                api_base |-> <<"rest/api">>])
       ELSE base

StorageBody(content) ==
    JObj([storage |-> JObj([value |-> content, representation |-> <<"storage">>])])

ConfluenceClient_search_content(cl, cql, limit, start, resp, lib) ==
    get(cl, cl.api_base \o <<"/search">>,
        JObj([cql |-> cql, limit |-> limit, start |-> start,
              expand |-> <<"version,space,body.storage">>]), resp, lib)

ConfluenceClient_get_page(cl, page_id, expand, resp, lib) ==
    LET params == IF Truthy(expand) THEN [expand |-> expand]
                  ELSE [expand |-> <<"body.storage,version,space">>]
    IN get(cl, cl.api_base \o <<"/content/">> \o Fmt(page_id), JObj(params), resp, lib)

\* out: Ok(the first match), Ok(JNull) when there is none
ConfluenceClient_get_page_by_title(cl, space_key, title, resp, lib) ==
    LET r == get(cl, cl.api_base \o <<"/content">>,
                 JObj([spaceKey |-> space_key, title |-> title,
                       expand |-> <<"body.storage,version,space">>]), resp, lib)
        results == DictGet(r.out.value, "results", JArr(<<>>))
    IN [req |-> r.req,
        out |-> IF ~r.out.ok THEN r.out
                ELSE IF ~results.ok THEN results
                ELSE IF JTruthy(results.value) THEN Ok(results.value.a[1]) ELSE Ok(JNull)]

ConfluenceClient_get_page_children(cl, page_id, limit, start, expand, resp, lib) ==
    LET params == [limit |-> limit, start |-> start,
                   expand |-> IF Truthy(expand) THEN expand ELSE <<"version,space">>]
        r == get(cl, cl.api_base \o <<"/content/">> \o Fmt(page_id) \o <<"/child/page">>,
                 JObj(params), resp, lib)
    IN [req |-> r.req,
        out |-> IF r.out.ok THEN DictGet(r.out.value, "results", JArr(<<>>)) ELSE r.out]

ConfluenceClient_create_page(cl, space_key, title, content, parent_id, resp, lib) ==
    LET data == [type |-> <<"page">>, title |-> title, space |-> JObj([key |-> space_key]),
                 body |-> StorageBody(content)]
                @@ (IF Truthy(parent_id)
                    THEN ("ancestors" :> JArr(<<JObj([id |-> parent_id])>>)) ELSE <<>>)
    IN post(cl, cl.api_base \o <<"/content">>, JNull, JObj(data), resp, lib)

\* (variant: the version number is sent as it was given)
ConfluenceClient_update_page_same(cl, page_id, title, content, version, parent_id, resp, lib) ==
    LET data == [id |-> page_id, type |-> <<"page">>, title |-> title,
                 body |-> StorageBody(content),
                 version |-> JObj([number |-> version])]
                @@ (IF Truthy(parent_id)
                    THEN ("ancestors" :> JArr(<<JObj([id |-> parent_id])>>)) ELSE <<>>)
    IN put(cl, cl.api_base \o <<"/content/">> \o Fmt(page_id), JNull, JObj(data), resp, lib)

ConfluenceClient_update_page(cl, page_id, title, content, version, parent_id, resp, lib) ==
    LET data == [id |-> page_id, type |-> <<"page">>, title |-> title,
                 body |-> StorageBody(content),
                 version |-> JObj([number |-> version + 1])]
                @@ (IF Truthy(parent_id)
                    THEN ("ancestors" :> JArr(<<JObj([id |-> parent_id])>>)) ELSE <<>>)
    IN put(cl, cl.api_base \o <<"/content/">> \o Fmt(page_id), JNull, JObj(data), resp, lib)

ConfluenceClient_delete_page(cl, page_id, resp, lib) ==
    LET r == delete(cl, cl.api_base \o <<"/content/">> \o Fmt(page_id), resp, lib)
    IN [req |-> r.req,
        out |-> IF r.out.ok THEN Ok(TRUE)
                ELSE IF r.out.exc.type = "APIError" THEN Ok(FALSE)
                ELSE r.out]

ConfluenceClient_add_comment(cl, page_id, content, resp, lib) ==
    post(cl, cl.api_base \o <<"/content">>, JNull,
         JObj([type |-> <<"comment">>, container |-> JObj([id |-> page_id]),
               body |-> StorageBody(content)]), resp, lib)

ConfluenceClient_get_page_labels(cl, page_id, resp, lib) ==
    LET r == get(cl, cl.api_base \o <<"/content/">> \o Fmt(page_id) \o <<"/label">>,
                 JNull, resp, lib)
    IN [req |-> r.req,
        out |-> IF r.out.ok THEN DictGet(r.out.value, "results", JArr(<<>>)) ELSE r.out]

\* (variant: the labels are fetched before the label is posted)
ConfluenceClient_add_page_label_get_first(cl, page_id, label_name, rs, lib) ==
    LET data == JArr(<<JObj([prefix |-> <<"global">>, name |-> label_name])>>)
        r1 == ConfluenceClient_get_page_labels(cl, page_id, rs[1], lib)
        r2 == post(cl, cl.api_base \o <<"/content/">> \o Fmt(page_id) \o <<"/label">>,
                   JNull, data, rs[2], lib)
    IN IF ~r1.out.ok \/ Len(rs) = 1 THEN [reqs |-> <<r1.req>>, out |-> r1.out]
       ELSE [reqs |-> <<r1.req, r2.req>>, out |-> IF r2.out.ok THEN r1.out ELSE r2.out]

\* two requests: rs[1] answers the POST, rs[2] the GET that follows it
ConfluenceClient_add_page_label(cl, page_id, label_name, rs, lib) ==
    LET data == JArr(<<JObj([prefix |-> <<"global">>, name |-> label_name])>>)
        r1 == post(cl, cl.api_base \o <<"/content/">> \o Fmt(page_id) \o <<"/label">>,
                   JNull, data, rs[1], lib)
        r2 == ConfluenceClient_get_page_labels(cl, page_id, rs[2], lib)
    IN IF ~r1.out.ok THEN [reqs |-> <<r1.req>>, out |-> r1.out]
       ELSE [reqs |-> <<r1.req, r2.req>>, out |-> r2.out]

\* ------------------------------------------------------------ tools: Jira
\* The body of each public method's try block: the requests it issued and
\* Ok(the value it passes to json.dumps) or the exception raised in it.
\* cl is the client _get_client returned, a the arguments, rs the remote's
\* answers to the requests in order.

\* fields.split(',') if fields and fields != '*all' else None
FieldList(fields) ==
    IF Truthy(fields) /\ fields # <<"*all">> THEN JArr(Split(fields, ",")) ELSE JNull

JiraTools_get_issue(cl, a, rs, lib) ==
    LET r == JiraClient_get_issue(cl, a.issue_key, FieldList(a.fields), a.expand, rs[1], lib)
    IN [reqs |-> <<r.req>>, out |-> r.out]

JiraTools_search_issues(cl, a, rs, lib) ==
    LET r == JiraClient_search_issues(cl, a.jql, FieldList(a.fields), a.start_at,
                                      a.max_results, rs[1], lib)
    IN [reqs |-> <<r.req>>, out |-> r.out]

JiraTools_create_issue(cl, a, rs, lib) ==
    LET kwargs == (IF Truthy(a.description) THEN ("description" :> a.description) ELSE <<>>)
                  @@ (IF Truthy(a.assignee) THEN ("assignee" :> a.assignee) ELSE <<>>)
        r == JiraClient_create_issue(cl, a.project_key, a.summary, a.issue_type, kwargs,
                                     rs[1], lib)
    IN [reqs |-> <<r.req>>,
        out |-> IF r.out.ok
                THEN Ok(JObj([message |-> <<"Issue created successfully">>,
                              issue |-> r.out.value]))
                ELSE r.out]

\* (variant: a re-fetch that fails is left out of the success envelope)
JiraTools_update_issue_lenient(cl, a, rs, lib) ==
    LET r1 == JiraClient_update_issue(cl, a.issue_key, a.fields, rs[1], lib)
        r2 == JiraClient_get_issue(cl, a.issue_key, JNull, None, rs[2], lib)
    IN IF ~r1.out.ok THEN [reqs |-> <<r1.req>>, out |-> r1.out]
       ELSE [reqs |-> <<r1.req, r2.req>>,
             out |-> Ok(JObj([message |-> <<"Issue updated successfully">>,
                              issue |-> IF r2.out.ok THEN r2.out.value ELSE JNull]))]

JiraTools_update_issue(cl, a, rs, lib) ==
    LET r1 == JiraClient_update_issue(cl, a.issue_key, a.fields, rs[1], lib)
        r2 == JiraClient_get_issue(cl, a.issue_key, JNull, None, rs[2], lib)
    IN IF ~r1.out.ok THEN [reqs |-> <<r1.req>>, out |-> r1.out]
       ELSE [reqs |-> <<r1.req, r2.req>>,
             out |-> IF r2.out.ok
                     THEN Ok(JObj([message |-> <<"Issue updated successfully">>,
                                   issue |-> r2.out.value]))
                     ELSE r2.out]

JiraTools_delete_issue(cl, a, rs, lib) ==
    LET r == JiraClient_delete_issue(cl, a.issue_key, rs[1], lib)
    IN [reqs |-> <<r.req>>,
        out |-> IF ~r.out.ok THEN r.out
                ELSE IF r.out.value
                THEN Ok(JObj([message |-> <<"Issue ">> \o Fmt(a.issue_key)
                                          \o <<" has been deleted successfully.">>]))
                ELSE Ok(JObj([error |-> <<"Failed to delete issue ">> \o Fmt(a.issue_key)
                                \o <<". Issue may not exist or you may not have permission.">>]))]

JiraTools_add_comment(cl, a, rs, lib) ==
    LET r == JiraClient_add_comment(cl, a.issue_key, a.comment, rs[1], lib)
    IN [reqs |-> <<r.req>>,
        out |-> IF r.out.ok
                THEN Ok(JObj([message |-> <<"Comment added successfully">>,
                              comment |-> r.out.value]))
                ELSE r.out]

JiraTools_get_transitions(cl, a, rs, lib) ==
    LET r == JiraClient_get_transitions(cl, a.issue_key, rs[1], lib)
    IN [reqs |-> <<r.req>>, out |-> r.out]

JiraTools_transition_issue(cl, a, rs, lib) ==
    LET r1 == JiraClient_transition_issue(cl, a.issue_key, a.transition_id, a.fields,
                                          a.comment, rs[1], lib)
        r2 == JiraClient_get_issue(cl, a.issue_key, JNull, None, rs[2], lib)
    IN IF ~r1.out.ok THEN [reqs |-> <<r1.req>>, out |-> r1.out]
       ELSE [reqs |-> <<r1.req, r2.req>>,
             out |-> IF r2.out.ok
                     THEN Ok(JObj([message |-> <<"Issue ">> \o Fmt(a.issue_key)
                                               \o <<" transitioned successfully">>,
                                   issue |-> r2.out.value]))
                     ELSE r2.out]

JiraTools_get_projects(cl, a, rs, lib) ==
    LET r == JiraClient_get_projects(cl, rs[1], lib)
    IN [reqs |-> <<r.req>>, out |-> r.out]

JiraTools_get_user_profile(cl, a, rs, lib) ==
    LET r == JiraClient_get_user(cl, a.user_identifier, rs[1], lib)
    IN [reqs |-> <<r.req>>,
        out |-> IF r.out.ok THEN Ok(JObj([success |-> JBool(TRUE), user |-> r.out.value]))
                ELSE r.out]

\* the envelope each method's except clause builds from the exception e
JiraTools_error(op, a, e) ==
    CASE op = "jira_get_issue" ->
           JObj([error |-> <<"Failed to get issue ">> \o Fmt(a.issue_key) \o <<": ">> \o e.msg,
                 issue_key |-> a.issue_key])
      [] op = "jira_search_issues" ->
           JObj([error |-> <<"Failed to search issues: ">> \o e.msg, jql |-> a.jql])
      [] op = "jira_create_issue" ->
           JObj([error |-> <<"Failed to create issue: ">> \o e.msg,
                 project_key |-> a.project_key, summary |-> a.summary])
      [] op = "jira_update_issue" ->
           JObj([error |-> <<"Failed to update issue ">> \o Fmt(a.issue_key) \o <<": ">> \o e.msg,
                 issue_key |-> a.issue_key])
      [] op = "jira_delete_issue" ->
           JObj([error |-> <<"Failed to delete issue ">> \o Fmt(a.issue_key) \o <<": ">> \o e.msg,
                 issue_key |-> a.issue_key])
      [] op = "jira_add_comment" ->
           JObj([error |-> <<"Failed to add comment to issue ">> \o Fmt(a.issue_key)
                           \o <<": ">> \o e.msg,
                 issue_key |-> a.issue_key])
      [] op = "jira_get_transitions" ->
           JObj([error |-> <<"Failed to get transitions for issue ">> \o Fmt(a.issue_key)
                           \o <<": ">> \o e.msg,
                 issue_key |-> a.issue_key])
      [] op = "jira_transition_issue" ->
           JObj([error |-> <<"Failed to transition issue ">> \o Fmt(a.issue_key)
                           \o <<": ">> \o e.msg,
                 issue_key |-> a.issue_key, transition_id |-> a.transition_id])
      [] op = "jira_get_projects" ->
           JObj([error |-> <<"Failed to get projects: ">> \o e.msg])
      [] op = "jira_get_user_profile" ->
           JObj([success |-> JBool(FALSE), error |-> e.msg,
                 user_identifier |-> a.user_identifier])

\* ------------------------------------------------------ tools: Confluence

AttributeError == OtherErrorC("AttributeError", <<"object has no attribute 'get'">>)

\* d.get(k1, {}).get(k2, {})....get(kn, default) on a dict d
RECURSIVE GetIn(_, _, _)
GetIn(d, path, default) ==
    IF Len(path) = 1
    THEN (IF HasKey(d, path[1]) THEN d.f[path[1]] ELSE default)
    ELSE GetIn(IF HasKey(d, path[1]) THEN d.f[path[1]] ELSE JObj(<<>>), Tail(path), default)

SimplifiedResult(r) ==
    JObj([id |-> GetIn(r, <<"id">>, JNull), title |-> GetIn(r, <<"title">>, JNull),
          type |-> GetIn(r, <<"type">>, JNull),
          space |-> GetIn(r, <<"space", "name">>, JNull),
          spaceKey |-> GetIn(r, <<"space", "key">>, JNull),
          url |-> GetIn(r, <<"_links", "webui">>, JNull)])

SimplifiedPage(p) ==
    JObj(SimplifiedResult(p).f @@ [version |-> GetIn(p, <<"version", "number">>, JNull)])

CqlTokens == {"=", "~", ">", "<", " AND ", " OR "}

\* (variant: only the equals sign marks a query as CQL)
CqlQuery_equals_only(query) ==
    IF Truthy(query) /\ ~Contains(query, "=")
    THEN <<"siteSearch ~ \"">> \o query \o <<"\"">>
    ELSE query

CqlQuery(query) ==
    IF Truthy(query) /\ ~(\E x \in CqlTokens : Contains(query, x))
    THEN <<"siteSearch ~ \"">> \o query \o <<"\"">>
    ELSE query

ConfluenceTools_search(cl, a, rs, lib) ==
    LET r == ConfluenceClient_search_content(cl, CqlQuery(a.query), a.limit, a.start, rs[1], lib)
        results == DictGet(r.out.value, "results", JArr(<<>>))
    IN [reqs |-> <<r.req>>,
        out |-> IF ~r.out.ok THEN r.out
                ELSE IF ~results.ok THEN results
                ELSE Ok(JArr([i \in DOMAIN results.value.a |->
                                SimplifiedResult(results.value.a[i])]))]

GetPageMetadata(page_data) ==
    IF ~IsObj(page_data) THEN Raise(AttributeError)
    ELSE Ok(JObj([metadata |->
            JObj(SimplifiedPage(page_data).f
                 @@ [content |-> GetIn(page_data, <<"body", "storage", "value">>, Empty)])]))

ConfluenceTools_get_page(cl, a, rs, lib) ==
    IF Truthy(a.page_id)
    THEN LET r == ConfluenceClient_get_page(cl, a.page_id, None, rs[1], lib)
         IN [reqs |-> <<r.req>>,
             out |-> IF r.out.ok THEN GetPageMetadata(r.out.value) ELSE r.out]
    ELSE IF Truthy(a.title) /\ Truthy(a.space_key)
    THEN LET r == ConfluenceClient_get_page_by_title(cl, a.space_key, a.title, rs[1], lib)
         IN [reqs |-> <<r.req>>,
             out |-> IF ~r.out.ok THEN r.out
                     ELSE IF r.out.value = JNull
                     THEN Ok(JObj([error |-> <<"Page with title '">> \o a.title
                                     \o <<"' not found in space '">> \o a.space_key \o <<"'">>]))
                     ELSE GetPageMetadata(r.out.value)]
    ELSE [reqs |-> <<>>,
          out |-> Ok(JObj([error |->
                     <<"Either 'page_id' OR both 'title' and 'space_key' must be provided">>]))]

ConfluenceTools_create_page(cl, a, rs, lib) ==
    LET r == ConfluenceClient_create_page(cl, a.space_key, a.title, a.content, a.parent_id,
                                          rs[1], lib)
    IN [reqs |-> <<r.req>>,
        out |-> IF ~r.out.ok THEN r.out
                ELSE IF ~IsObj(r.out.value) THEN Raise(AttributeError)
                ELSE Ok(JObj([message |-> <<"Page created successfully">>,
                              page |-> SimplifiedPage(r.out.value)]))]

\* (variant: the version of the fetched page is not read)
ConfluenceTools_update_page_no_read(cl, a, rs, lib) ==
    LET r1 == ConfluenceClient_get_page(cl, a.page_id, None, rs[1], lib)
        r2 == ConfluenceClient_update_page(cl, a.page_id, a.title, a.content, 0,
                                           a.parent_id, rs[2], lib)
    IN IF ~r1.out.ok THEN [reqs |-> <<r1.req>>, out |-> r1.out]
       ELSE IF ~IsObj(r1.out.value) THEN [reqs |-> <<r1.req>>, out |-> Raise(AttributeError)]
       ELSE [reqs |-> <<r1.req, r2.req>>,
             out |-> IF ~r2.out.ok THEN r2.out
                     ELSE IF ~IsObj(r2.out.value) THEN Raise(AttributeError)
                     ELSE Ok(JObj([message |-> <<"Page updated successfully">>,
                                   page |-> SimplifiedPage(r2.out.value)]))]

ConfluenceTools_update_page(cl, a, rs, lib) ==
    LET r1 == ConfluenceClient_get_page(cl, a.page_id, None, rs[1], lib)
        current_version == GetIn(r1.out.value, <<"version", "number">>, 0)
        r2 == ConfluenceClient_update_page(cl, a.page_id, a.title, a.content, current_version,
                                           a.parent_id, rs[2], lib)
    IN IF ~r1.out.ok THEN [reqs |-> <<r1.req>>, out |-> r1.out]
       ELSE IF ~IsObj(r1.out.value) THEN [reqs |-> <<r1.req>>, out |-> Raise(AttributeError)]
       ELSE [reqs |-> <<r1.req, r2.req>>,
             out |-> IF ~r2.out.ok THEN r2.out
                     ELSE IF ~IsObj(r2.out.value) THEN Raise(AttributeError)
                     ELSE Ok(JObj([message |-> <<"Page updated successfully">>,
                                   page |-> SimplifiedPage(r2.out.value)]))]

ConfluenceTools_delete_page(cl, a, rs, lib) ==
    LET r == ConfluenceClient_delete_page(cl, a.page_id, rs[1], lib)
    IN [reqs |-> <<r.req>>,
        out |-> IF ~r.out.ok THEN r.out
                ELSE IF r.out.value
                THEN Ok(JObj([success |-> JBool(TRUE),
                              message |-> <<"Page ">> \o Fmt(a.page_id)
                                          \o <<" deleted successfully">>]))
                ELSE Ok(JObj([success |-> JBool(FALSE),
                              message |-> <<"Unable to delete page ">> \o Fmt(a.page_id)]))]

ConfluenceTools_add_comment(cl, a, rs, lib) ==
    LET r == ConfluenceClient_add_comment(cl, a.page_id, a.content, rs[1], lib)
        c == r.out.value
    IN [reqs |-> <<r.req>>,
        out |-> IF ~r.out.ok THEN r.out
                ELSE IF ~IsObj(c) THEN Raise(AttributeError)
                ELSE Ok(JObj([success |-> JBool(TRUE),
                              message |-> <<"Comment added successfully">>,
                              comment |-> JObj([id |-> GetIn(c, <<"id">>, JNull),
                                    type |-> GetIn(c, <<"type">>, JNull),
                                    content |-> GetIn(c, <<"body", "storage", "value">>, Empty),
                                    version |-> GetIn(c, <<"version", "number">>, JNull)])]))]

ConfluenceTools_get_page_children(cl, a, rs, lib) ==
    LET r == ConfluenceClient_get_page_children(cl, a.parent_id, a.limit, a.start, None,
                                                rs[1], lib)
        children == r.out.value.a
    IN [reqs |-> <<r.req>>,
        out |-> IF ~r.out.ok THEN r.out
                ELSE Ok(JObj([parent_id |-> a.parent_id, count |-> Len(children),
                              results |-> JArr([i \in DOMAIN children |->
                                                  SimplifiedResult(children[i])])]))]

\* (variant: the labels are returned inside a mapping)
ConfluenceTools_get_page_labels_wrapped(cl, a, rs, lib) ==
    LET r == ConfluenceClient_get_page_labels(cl, a.page_id, rs[1], lib)
    IN [reqs |-> <<r.req>>,
        out |-> IF r.out.ok THEN Ok(JObj([page_id |-> a.page_id, labels |-> r.out.value]))
                ELSE r.out]

ConfluenceTools_get_page_labels(cl, a, rs, lib) ==
    LET r == ConfluenceClient_get_page_labels(cl, a.page_id, rs[1], lib)
    IN [reqs |-> <<r.req>>, out |-> r.out]

ConfluenceTools_add_page_label(cl, a, rs, lib) ==
    ConfluenceClient_add_page_label(cl, a.page_id, a.label_name, rs, lib)

ConfluenceTools_error(op, a, e) ==
    CASE op = "confluence_search" ->
           JObj([error |-> <<"Failed to search Confluence: ">> \o e.msg, query |-> a.query])
      [] op = "confluence_get_page" ->
           JObj([error |-> <<"Failed to get page: ">> \o e.msg])
      [] op = "confluence_create_page" ->
           JObj([error |-> <<"Failed to create page: ">> \o e.msg,
                 space_key |-> a.space_key, title |-> a.title])
      [] op = "confluence_update_page" ->
           JObj([error |-> <<"Failed to update page ">> \o Fmt(a.page_id) \o <<": ">> \o e.msg,
                 page_id |-> a.page_id])
      [] op = "confluence_delete_page" ->
           JObj([success |-> JBool(FALSE), error |-> e.msg, page_id |-> a.page_id])
      [] op = "confluence_add_comment" ->
           JObj([success |-> JBool(FALSE), error |-> e.msg, page_id |-> a.page_id])
      [] op = "confluence_get_page_children" ->
           JObj([error |-> <<"Failed to get child pages: ">> \o e.msg,
                 parent_id |-> a.parent_id])
      [] op = "confluence_get_page_labels" ->
           JObj([error |-> <<"Failed to get labels: ">> \o e.msg, page_id |-> a.page_id])
      [] op = "confluence_add_page_label" ->
           JObj([error |-> <<"Failed to add label: ">> \o e.msg,
                 page_id |-> a.page_id, label_name |-> a.label_name])

\* ------------------------------------------------------- tools: dispatch

JiraOps ==
    {"jira_get_issue", "jira_search_issues", "jira_create_issue", "jira_update_issue",
     "jira_delete_issue", "jira_add_comment", "jira_get_transitions",
     "jira_transition_issue", "jira_get_projects", "jira_get_user_profile"}

ConfluenceOps ==
    {"confluence_search", "confluence_get_page", "confluence_create_page",
     "confluence_update_page", "confluence_delete_page", "confluence_add_comment",
     "confluence_get_page_children", "confluence_get_page_labels",
     "confluence_add_page_label"}

Ops == JiraOps \cup ConfluenceOps

OpsOf(b) == IF b = "jira" THEN JiraOps ELSE ConfluenceOps

BackendOf(op) == IF op \in JiraOps THEN "jira" ELSE "confluence"

\* the methods that issue a second request after a first that succeeded
TwoRequestOps ==
    {"jira_update_issue", "jira_transition_issue", "confluence_update_page",
     "confluence_add_page_label"}

\* the remote's answers to the requests of one call, in order
\* (a second answer exists only when the first let the method go on)
Passes(r) == ~r.fail /\ ~raise_for_status(r) /\ r.body # "invalid"

\* the answers tool calls are run against: no answer, 200 with every body,
\* and each other status with one body
ToolResponses ==
    {r \in Responses :
        \/ r.fail
        \/ r.status = 200
        \/ r.status \in {304, 401} /\ r.body = "empty"
        \/ r.status \in {101, 403, 404} /\ r.body = "object"
        \/ r.status = 500 /\ r.body = "invalid"}

ResponseSeqs(op) ==
    IF op \in TwoRequestOps
    THEN {<<r>> : r \in {x \in ToolResponses : ~Passes(x)}}
         \cup ({x \in ToolResponses : Passes(x)} \X ToolResponses)
    ELSE {<<r>> : r \in ToolResponses}

Key == <<"ABC-1">>

PageId == <<"123">>

\* the arguments the tool host passes, per tool
ArgsOf(op) ==
    CASE op = "jira_get_issue" ->
           {[issue_key |-> Key, fields |-> f, expand |-> None] :
               f \in {None, <<"*all">>, <<"summary", ",", "status">>}}
      [] op = "jira_search_issues" ->
           {[jql |-> <<"project", " = ", "ABC">>, fields |-> None, start_at |-> 0,
             max_results |-> 50]}
      [] op = "jira_create_issue" ->
           {[project_key |-> <<"ABC">>, summary |-> <<"A summary">>, issue_type |-> <<"Task">>,
             description |-> d, assignee |-> g] :
               d \in {None, <<"Some text">>}, g \in {None, <<"u-17">>}}
      [] op = "jira_update_issue" ->
           {[issue_key |-> Key, fields |-> JObj([summary |-> <<"Changed">>])]}
      [] op = "jira_delete_issue" -> {[issue_key |-> Key]}
      [] op = "jira_add_comment" -> {[issue_key |-> Key, comment |-> <<"A comment">>]}
      [] op = "jira_get_transitions" -> {[issue_key |-> Key]}
      [] op = "jira_transition_issue" ->
           {[issue_key |-> Key, transition_id |-> <<"31">>, fields |-> JNull, comment |-> c] :
               c \in {None, <<"Done now">>}}
      [] op = "jira_get_projects" -> {<<>>}
      [] op = "jira_get_user_profile" -> {[user_identifier |-> <<"u-17">>]}
      [] op = "confluence_search" ->
           {[query |-> q, limit |-> 25, start |-> 0] :
               q \in {<<"hello">>, <<"space ", "=", " DEV">>, <<"a", " AND ", "b">>,
                      <<"a", " and ", "b">>, Empty}}
      [] op = "confluence_get_page" ->
           {[page_id |-> PageId, title |-> None, space_key |-> None],
            [page_id |-> PageId, title |-> <<"Home">>, space_key |-> <<"DEV">>],
            [page_id |-> None, title |-> <<"Home">>, space_key |-> <<"DEV">>],
            [page_id |-> None, title |-> <<"Home">>, space_key |-> None],
            [page_id |-> None, title |-> None, space_key |-> None]}
      [] op = "confluence_create_page" ->
           {[space_key |-> <<"DEV">>, title |-> <<"Home">>, content |-> <<"<p>x</p>">>,
             parent_id |-> q] : q \in {None, <<"77">>}}
      [] op = "confluence_update_page" ->
           {[page_id |-> PageId, title |-> <<"Home">>, content |-> <<"<p>x</p>">>,
             parent_id |-> q] : q \in {None, <<"77">>}}
      [] op = "confluence_delete_page" -> {[page_id |-> PageId]}
      [] op = "confluence_add_comment" -> {[page_id |-> PageId, content |-> <<"<p>c</p>">>]}
      [] op = "confluence_get_page_children" ->
           {[parent_id |-> PageId, limit |-> 25, start |-> 0]}
      [] op = "confluence_get_page_labels" -> {[page_id |-> PageId]}
      [] op = "confluence_add_page_label" -> {[page_id |-> PageId, label_name |-> <<"draft">>]}

\* the try block of the method after self._get_client() returned cl
ToolBody(op, cl, a, rs, lib) ==
    CASE op = "jira_get_issue" -> JiraTools_get_issue(cl, a, rs, lib)
      [] op = "jira_search_issues" -> JiraTools_search_issues(cl, a, rs, lib)
      [] op = "jira_create_issue" -> JiraTools_create_issue(cl, a, rs, lib)
      [] op = "jira_update_issue" -> JiraTools_update_issue(cl, a, rs, lib)
      [] op = "jira_delete_issue" -> JiraTools_delete_issue(cl, a, rs, lib)
      [] op = "jira_add_comment" -> JiraTools_add_comment(cl, a, rs, lib)
      [] op = "jira_get_transitions" -> JiraTools_get_transitions(cl, a, rs, lib)
      [] op = "jira_transition_issue" -> JiraTools_transition_issue(cl, a, rs, lib)
      [] op = "jira_get_projects" -> JiraTools_get_projects(cl, a, rs, lib)
      [] op = "jira_get_user_profile" -> JiraTools_get_user_profile(cl, a, rs, lib)
      [] op = "confluence_search" -> ConfluenceTools_search(cl, a, rs, lib)
      [] op = "confluence_get_page" -> ConfluenceTools_get_page(cl, a, rs, lib)
      [] op = "confluence_create_page" -> ConfluenceTools_create_page(cl, a, rs, lib)
      [] op = "confluence_update_page" -> ConfluenceTools_update_page(cl, a, rs, lib)
      [] op = "confluence_delete_page" -> ConfluenceTools_delete_page(cl, a, rs, lib)
      [] op = "confluence_add_comment" -> ConfluenceTools_add_comment(cl, a, rs, lib)
      [] op = "confluence_get_page_children" ->
           ConfluenceTools_get_page_children(cl, a, rs, lib)
      [] op = "confluence_get_page_labels" -> ConfluenceTools_get_page_labels(cl, a, rs, lib)
      [] op = "confluence_add_page_label" -> ConfluenceTools_add_page_label(cl, a, rs, lib)

ToolError(op, a, e) ==
    IF op \in JiraOps THEN JiraTools_error(op, a, e) ELSE ConfluenceTools_error(op, a, e)

\* "except Exception": every exception of the model is an Exception
ExceptionTypes == {"AuthenticationError", "APIError", "ValueError", "AttributeError"}

\* (variant: "except AtlassianError")
ExceptAtlassianError(e) == e.type \in {"AuthenticationError", "APIError"}

ExceptException(e) == e.type \in ExceptionTypes

\* what the caller of a public method gets: the str json.dumps made of doc,
\* or an exception that left the method
Returned(doc) == [kind |-> "str", json |-> doc]

Propagated(e) == [kind |-> "raise", exc |-> e]

\* the method's try/except around an outcome of its try block
ToolResult(op, a, out) ==
    IF out.ok THEN Returned(out.value)
    ELSE IF ExceptException(out.exc) THEN Returned(ToolError(op, a, out.exc))
    ELSE Propagated(out.exc)

NotConfiguredError(b) ==
    IF b = "jira"
    THEN AuthenticationErrorC(<<"Jira ", "authentication",
             " not configured. Please set JIRA_URL and authentication credentials.">>)
    ELSE AuthenticationErrorC(<<"Confluence ", "authentication",
             " not configured. Please set CONFLUENCE_URL and authentication credentials.">>)

DomainClient_init(b, config, id) ==
    IF b = "jira" THEN JiraClient_init(config, id) ELSE ConfluenceClient_init(config, id)

\* ---------------------------------------------------------------- state

VARIABLES
    env,        \* the process environment: key -> value, None when not set
    envChanges, \* how often the environment has changed since the process started
    client,     \* backend -> the _client field of its tools instance
    nClients,   \* backend -> domain clients (and HTTP sessions) constructed so far
    nConfigs,   \* backend -> ServiceConfigs built by from_env so far
    th,         \* thread of the tool host -> the call it is running, with the
                \* requests it sent (reqs) and the remote's answers (resps)
    inst,       \* the backend whose tools instance the behaviour follows
    rc          \* a request client used on its own (SpecClient)

vars == <<env, envChanges, client, nClients, nConfigs, th, inst, rc>>

Threads == {"t1", "t2"}

\* self._client = None
NoClient == [id |-> 0]

NoConfig == [url |-> None]

NoResult == [kind |-> "none"]

Idle ==
    [pc |-> "idle", op |-> "none", args |-> <<>>, cfg |-> NoConfig, cl |-> NoClient,
     reqs |-> <<>>, resps |-> <<>>, result |-> NoResult]

\* how many times one backend's configuration is resolved before the model
\* stops starting calls that would resolve it again
MaxConfigs == 2

\* how many changes of the environment a behaviour of the model contains
MaxEnvChanges == 1

\* the environments in which only the keys backend b reads may be set
Environments(b) ==
    {e \in [EnvKeys -> {None, CloudUrl, ServerUrl, <<"alice">>, <<"pw">>, <<"tok">>, <<"oauth">>}] :
        \A k \in EnvKeys : e[k] \in (IF k \in KeysOf(b) THEN EnvValues(k) ELSE {None})}

InitTools ==
    /\ client = [b \in Backends |-> NoClient]
    /\ nClients = [b \in Backends |-> 0]
    /\ nConfigs = [b \in Backends |-> 0]
    /\ th = [t \in Threads |-> Idle]

\* ---------------------------------------------------------------- actions

\* the environment changes between calls
SetEnv(k, v) ==
    /\ \A t \in Threads : th[t].pc = "idle"
    /\ k \in KeysOf(inst)
    /\ v # env[k]
    /\ envChanges < MaxEnvChanges
    /\ envChanges' = envChanges + 1
    /\ env' = [env EXCEPT ![k] = v]
    /\ UNCHANGED <<client, nClients, nConfigs, th, inst, rc>>

\* the tool host calls a public method of a tools instance on thread t
Invoke(t, op, a) ==
    /\ th[t].pc = "idle"
    /\ BackendOf(op) = inst
    /\ client[BackendOf(op)] # NoClient \/ nConfigs[BackendOf(op)] < MaxConfigs
    /\ th' = [th EXCEPT ![t] = [Idle EXCEPT !.pc = "get_client", !.op = op, !.args = a]]
    /\ UNCHANGED <<env, envChanges, client, nClients, nConfigs, inst, rc>>

\* (variant: the client is built on every call)
CheckClient_no_memo(t) ==
    /\ th[t].pc = "get_client"
    /\ th' = [th EXCEPT ![t].pc = "build"]
    /\ UNCHANGED <<env, envChanges, client, nClients, nConfigs, inst, rc>>

\* _get_client: "if self._client is None" and, when it is not, the return
CheckClient(t) ==
    LET b == BackendOf(th[t].op)
    IN /\ th[t].pc = "get_client"
       /\ IF client[b] = NoClient
          THEN th' = [th EXCEPT ![t].pc = "build"]
          ELSE th' = [th EXCEPT ![t].pc = "call", ![t].cl = client[b],
                                ![t].cfg = client[b].config]
       /\ UNCHANGED <<env, envChanges, client, nClients, nConfigs, inst, rc>>

\* _get_client: the branch taken when self._client was None
BuildClient(t) ==
    LET op == th[t].op
        b == BackendOf(op)
        config == from_env(b, env)
        built == DomainClient_init(b, config, nClients[b] + 1)
    IN /\ th[t].pc = "build"
       /\ nConfigs' = [nConfigs EXCEPT ![b] = @ + 1]
       /\ IF ~is_auth_configured(b, config)
          THEN /\ th' = [th EXCEPT ![t].pc = "done", ![t].cfg = config,
                            ![t].result = ToolResult(op, th[t].args,
                                                     Raise(NotConfiguredError(b)))]
               /\ UNCHANGED <<client, nClients>>
          ELSE /\ nClients' = [nClients EXCEPT ![b] = @ + 1]
               /\ IF built.ok
                  THEN /\ client' = [client EXCEPT ![b] = built.value]
                       /\ th' = [th EXCEPT ![t].pc = "call", ![t].cfg = config,
                                           ![t].cl = built.value]
                  ELSE /\ th' = [th EXCEPT ![t].pc = "done", ![t].cfg = config,
                                    ![t].result = ToolResult(op, th[t].args, built)]
                       /\ UNCHANGED client
       /\ UNCHANGED <<env, envChanges, inst, rc>>

\* the builds of requests that answer differently to the answers rs
BuildsFor(rs) ==
    IF \E i \in DOMAIN rs : ~rs[i].fail /\ rs[i].body = "invalid" /\ ~raise_for_status(rs[i])
    THEN JsonErrorKinds ELSE {"RequestException"}

\* the rest of the try block, with the remote's answers, and the return
Execute(t) ==
    /\ th[t].pc = "call"
    /\ \E rs \in ResponseSeqs(th[t].op) : \E lib \in BuildsFor(rs) :
          LET body == ToolBody(th[t].op, th[t].cl, th[t].args, rs, lib)
          IN th' = [th EXCEPT ![t].pc = "done", ![t].reqs = body.reqs,
                              ![t].resps = SubSeq(rs, 1, Len(body.reqs)),
                              ![t].result = ToolResult(th[t].op, th[t].args, body.out)]
    /\ UNCHANGED <<env, envChanges, client, nClients, nConfigs, inst, rc>>

\* the tool host takes the result; the thread is free for the next call
Return(t) ==
    /\ th[t].pc = "done"
    /\ th' = [th EXCEPT ![t] = Idle]
    /\ UNCHANGED <<env, envChanges, client, nClients, nConfigs, inst, rc>>

\* the steps of thread t when the tool host calls the tools in ops
StepOf(t, ops) ==
    \/ \E op \in ops : \E a \in ArgsOf(op) : Invoke(t, op, a)
    \/ CheckClient(t)
    \/ BuildClient(t)
    \/ Execute(t)
    \/ Return(t)

\* one tool call at a time (the calls of one thread)
Init ==
    /\ inst \in Backends
    /\ env \in Environments(inst)
    /\ envChanges = 0
    /\ InitTools
    /\ rc = [phase |-> "unused"]

Next ==
    \/ \E k \in EnvKeys : \E v \in EnvValues(k) : SetEnv(k, v)
    \/ StepOf("t1", Ops)

Spec == Init /\ [][Next]_vars

\* --------------------------------------- the request client on its own
\* SpecClient: a BaseAtlassianClient is constructed from any configuration
\* and its verbs are called, with every answer of the remote.

OptionalValues(v) == {None, Empty, v}

\* base URLs as they are configured: none, plain, with one trailing slash, with two
BaseUrls == {Empty, CloudUrl, ServerUrl, CloudUrl \o <<"/">>, ServerUrl \o <<"/", "/">>}

AllConfigs ==
    [url : BaseUrls,
     username : OptionalValues(<<"alice">>),
     password : OptionalValues(<<"pw">>),
     token : OptionalValues(<<"tok">>),
     oauth_token : OptionalValues(<<"oauth">>)]

Verbs == {"GET", "POST", "PUT", "DELETE"}

Endpoints ==
    {<<"rest/api/3/issue/ABC-1">>, <<"/", "rest/api/content">>,
     <<"/", "/", "rest/api/content">>}

NoRequest == [method |-> "none"]

NoOutcome == [ok |-> FALSE, exc |-> [type |-> "none"]]

InitClient ==
    /\ rc \in {[phase |-> "new", config |-> c, cl |-> NoClient, verb |-> "none",
                endpoint |-> <<>>,
                resp |-> [fail |-> TRUE], req |-> NoRequest, sent |-> <<>>,
                out |-> NoOutcome] :
                  c \in AllConfigs}
    /\ inst = "jira"
    /\ env = [k \in EnvKeys |-> None]
    /\ envChanges = 0
    /\ InitTools

\* BaseAtlassianClient(config)
Construct ==
    LET built == BaseAtlassianClient_init(rc.config, 1)
    IN /\ rc.phase = "new"
       /\ IF built.ok
          THEN rc' = [rc EXCEPT !.phase = "ready", !.cl = built.value]
          ELSE rc' = [rc EXCEPT !.phase = "failed", !.out = built]
       /\ UNCHANGED <<env, envChanges, client, nClients, nConfigs, th, inst>>

\* client.get / post / put / delete (endpoint, ...) answered by resp
VerbCall(verb, endpoint, resp, lib) ==
    LET payload == JObj([name |-> <<"value">>])
        r == CASE verb = "GET" -> get(rc.cl, endpoint, payload, resp, lib)
               [] verb = "POST" -> post(rc.cl, endpoint, JNull, payload, resp, lib)
               [] verb = "PUT" -> put(rc.cl, endpoint, JNull, payload, resp, lib)
               [] verb = "DELETE" -> delete(rc.cl, endpoint, resp, lib)
    IN /\ rc.phase = "ready"
       /\ rc' = [rc EXCEPT !.phase = "answered", !.verb = verb, !.resp = resp,
                           !.endpoint = endpoint,
                           !.req = r.req, !.out = r.out,
                           !.sent = [i \in 1..request_attempts(resp) |-> r.req]]
       /\ UNCHANGED <<env, envChanges, client, nClients, nConfigs, th, inst>>

NextClient ==
    \/ Construct
    \/ \E verb \in Verbs, endpoint \in Endpoints, resp \in Responses :
          \E lib \in BuildsFor(<<resp>>) : VerbCall(verb, endpoint, resp, lib)

SpecClient == InitClient /\ [][NextClient]_vars

\* ------------------------------------------------- concurrent tool calls
\* SpecConc: the tool host runs calls of one tools instance on two threads;
\* a thread may be pre-empted between the steps of _get_client.

ConfiguredEnv(b) ==
    [k \in EnvKeys |->
        IF k = UrlKey(b) THEN CloudUrl
        ELSE IF k = "ATLASSIAN_USERNAME" THEN <<"alice">>
        ELSE IF k = "ATLASSIAN_API_TOKEN" THEN <<"tok">>
        ELSE None]

InitConc ==
    /\ inst \in Backends
    /\ env \in {ConfiguredEnv(inst), [k \in EnvKeys |-> None]}
    /\ envChanges = 0
    /\ InitTools
    /\ rc = [phase |-> "unused"]

\* the tools the two threads call
ConcOps ==
    {"jira_get_projects", "jira_delete_issue", "confluence_get_page_labels",
     "confluence_delete_page"}

NextConc == \E t \in Threads : StepOf(t, ConcOps)

SpecConc == InitConc /\ [][NextConc]_vars

\* ------------------------------------------------------------ properties

\* a call that has come to its end, with what its caller gets
Finished(t) == th[t].pc = "done"

\* C1: every public operation of JiraTools and ConfluenceTools, whatever the
\* client acquisition and the remote calls did (configuration failure,
\* AuthenticationError, APIError, any other exception), hands its caller a
\* JSON-encoded string and never an exception.
C1_AlwaysReturnsJsonString ==
    \A t \in Threads :
        Finished(t) =>
            /\ th[t].result.kind = "str"
            /\ th[t].result.json.j \in {"object", "array"}

\* C1 happens: an exception that is no AtlassianError (the ValueError of a
\* body that is no JSON) was raised in the call and came back as a string
C1_Witness ==
    \E t \in Threads :
        /\ Finished(t)
        /\ th[t].reqs # <<>>
        /\ th[t].result.kind = "str"
        /\ HasKey(th[t].result.json, "error")
        /\ Contains(th[t].result.json.f.error, "Expecting value")

\* a config with neither an oauth token nor username + password-or-token
LacksCredentials(c) ==
    /\ ~Truthy(c.oauth_token)
    /\ ~(Truthy(c.username) /\ (Truthy(c.password) \/ Truthy(c.token)))

\* an error envelope whose text mentions authentication
AuthenticationEnvelope(r) ==
    /\ r.kind = "str"
    /\ HasKey(r.json, "error")
    /\ Contains(r.json.f.error, "authentication")

\* C2: for every config that lacks both an oauth token and a username +
\* password-or-token pair, is_auth_configured() is false, and every operation
\* of the tools that resolved such a config returns an error envelope whose
\* text contains "authentication", having sent no HTTP request and raised
\* nothing.
C2_UnconfiguredFailsFast ==
    /\ \A b \in Backends :
          LacksCredentials(from_env(b, env)) => ~is_auth_configured(b, from_env(b, env))
    /\ \A t \in Threads :
          (Finished(t) /\ LacksCredentials(th[t].cfg)) =>
              /\ ~is_auth_configured(BackendOf(th[t].op), th[t].cfg)
              /\ th[t].reqs = <<>>
              /\ AuthenticationEnvelope(th[t].result)

\* C2 happens: a call ended under a config that has a URL but no credentials
C2_Witness ==
    \E t \in Threads :
        /\ Finished(t)
        /\ LacksCredentials(th[t].cfg)
        /\ Truthy(th[t].cfg.url)
        /\ th[t].result.kind = "str"

\* the operations that take the key of an issue, or the id of a page
IssueOps ==
    {"jira_get_issue", "jira_update_issue", "jira_delete_issue", "jira_add_comment",
     "jira_get_transitions", "jira_transition_issue"}

PageOps ==
    {"confluence_get_page", "confluence_update_page", "confluence_delete_page",
     "confluence_add_comment", "confluence_get_page_labels", "confluence_add_page_label"}

\* the identifying inputs of a call, as field names of its arguments
IdentifyingInputs(op, a) ==
    IF op \in IssueOps THEN {"issue_key"}
    ELSE IF op \in PageOps /\ Truthy(a.page_id) THEN {"page_id"}
    ELSE {}

\* a result that reports a failure: an error envelope, or success: false
ReportsFailure(r) ==
    /\ r.kind = "str"
    /\ \/ HasKey(r.json, "error")
       \/ HasKey(r.json, "success") /\ r.json.f.success = JBool(FALSE)

\* C3: every result of the tools that reports a failure (an exception in the
\* call, a domain delete that returned false, a page not found by title,
\* invalid get_page arguments) is a JSON object with an error field that
\* echoes back, as fields, the identifying inputs of the call (issue_key,
\* page_id) when it has any.
C3_FailureEnvelopeEchoesInputs ==
    \A t \in Threads :
        (Finished(t) /\ ReportsFailure(th[t].result)) =>
            /\ HasKey(th[t].result.json, "error")
            /\ \A k \in IdentifyingInputs(th[t].op, th[t].args) :
                  /\ HasKey(th[t].result.json, k)
                  /\ th[t].result.json.f[k] = th[t].args[k]

\* a verb of the request client has been answered by an HTTP response
Answered == rc.phase = "answered" /\ ~rc.resp.fail

\* the parsed JSON error body, or an empty mapping when it does not parse
BestEffortBody(resp) ==
    IF resp.body \in {"empty", "invalid"} THEN JObj(<<>>) ELSE RemoteJson(resp.body)

\* C4: for every verb of the request client and every endpoint, a response
\* with status 401 or 403 raises AuthenticationError, and a response with any
\* other 4xx or 5xx status raises APIError whose status_code is the status of
\* the response and whose response_data is the parsed JSON error body, or an
\* empty mapping when the body is no JSON.
C4_ErrorClassification ==
    (Answered /\ 400 =< rc.resp.status /\ rc.resp.status =< 599) =>
        /\ ~rc.out.ok
        /\ IF rc.resp.status \in {401, 403}
           THEN rc.out.exc.type = "AuthenticationError"
           ELSE /\ rc.out.exc.type = "APIError"
                /\ rc.out.exc.status_code = {rc.resp.status}
                /\ rc.out.exc.response_data = BestEffortBody(rc.resp)

\* C4 happens: a DELETE was answered 404 with a body that is no JSON
C4_Witness ==
    /\ Answered
    /\ rc.verb = "DELETE"
    /\ rc.resp.status = 404
    /\ rc.resp.body = "invalid"
    /\ ~rc.out.ok

\* C5: every response whose status is outside 200..299, 1xx and 3xx included,
\* makes the request client raise a typed error (AuthenticationError for 401
\* and 403, APIError otherwise); its body is never returned as a success.
C5_NonSuccessStatusRaises ==
    (Answered /\ ~(200 =< rc.resp.status /\ rc.resp.status =< 299)) =>
        /\ ~rc.out.ok
        /\ rc.out.exc.type =
              (IF rc.resp.status \in {401, 403} THEN "AuthenticationError" ELSE "APIError")

\* the request client exists (its construction did not fail)
Constructed == rc.phase \in {"ready", "answered"}

\* C6: constructing a request client selects exactly one auth mode: with an
\* oauth_token the session carries a Bearer Authorization header and no Basic
\* credentials, also when username and a secret are set; else with a username
\* and a token or password the session uses HTTP Basic, the token being the
\* secret when both are there; otherwise the construction fails with
\* AuthenticationError before any request is made.
C6_AuthModeSelection ==
    rc.phase \in {"ready", "answered", "failed"} =>
        IF Truthy(rc.config.oauth_token)
        THEN /\ Constructed
             /\ "Authorization" \in DOMAIN rc.cl.session.headers
             /\ rc.cl.session.headers["Authorization"] = <<"Bearer ">> \o rc.config.oauth_token
             /\ rc.cl.session.auth = NoBasic
        ELSE IF Truthy(rc.config.username)
                /\ (Truthy(rc.config.token) \/ Truthy(rc.config.password))
        THEN /\ Constructed
             /\ "Authorization" \notin DOMAIN rc.cl.session.headers
             /\ rc.cl.session.auth =
                   [username |-> rc.config.username,
                    password |-> IF Truthy(rc.config.token) THEN rc.config.token
                                 ELSE rc.config.password]
        ELSE /\ rc.phase = "failed"
             /\ rc.out = Raise(AuthenticationErrorC(
                             <<"No valid ", "authentication", " method configured">>))
             /\ rc.req = NoRequest

\* C6 happens: a client was constructed from a config that has an oauth
\* token, a username, a token and a password all at once
C6_Witness ==
    /\ Constructed
    /\ Truthy(rc.config.oauth_token)
    /\ Truthy(rc.config.username)
    /\ Truthy(rc.config.token)
    /\ Truthy(rc.config.password)

\* the two ways a config can carry credentials
HasOAuth(c) == Truthy(c.oauth_token)

HasBasic(c) == Truthy(c.username) /\ (Truthy(c.password) \/ Truthy(c.token))

\* a call that ended at once with the authentication error envelope
FailedFast(t) == th[t].reqs = <<>> /\ AuthenticationEnvelope(th[t].result)

\* C7 (as the spec states it): is_auth_configured() is true if and only if
\* exactly one of {oauth_token present} and {username present with password
\* or api token} holds; under every other config all operations fail fast
\* with an authentication error.
C7_ConfiguredIffExactlyOne ==
    /\ \A b \in Backends :
          LET c == from_env(b, env)
          IN is_auth_configured(b, c) <=> (HasOAuth(c) # HasBasic(c))
    /\ \A t \in Threads :
          (Finished(t) /\ ~(HasOAuth(th[t].cfg) # HasBasic(th[t].cfg))) => FailedFast(t)

\* C7 (amended): is_auth_configured() is true if and only if the base URL is
\* non-empty and at least one of {oauth_token present} and {username present
\* with password or api token} holds, both included; every operation that
\* resolves a config for which it is false fails fast with an authentication
\* error envelope and sends no HTTP request.
C7_ConfiguredIffUrlAndCredentials ==
    /\ \A b \in Backends :
          LET c == from_env(b, env)
          IN is_auth_configured(b, c) <=> (Truthy(c.url) /\ (HasOAuth(c) \/ HasBasic(c)))
    /\ \A t \in Threads :
          (Finished(t) /\ ~(Truthy(th[t].cfg.url) /\ (HasOAuth(th[t].cfg) \/ HasBasic(th[t].cfg))))
              => FailedFast(t)

\* C7 happens: a call ran, and sent requests, under a config that carries an
\* oauth token and Basic credentials at once
C7_Witness ==
    \E t \in Threads :
        /\ Finished(t)
        /\ HasOAuth(th[t].cfg)
        /\ HasBasic(th[t].cfg)
        /\ th[t].reqs # <<>>

\* C8: for any sequence of operations on one tools instance the domain client
\* is constructed at most once; after the first successful construction every
\* later operation uses that same client and its session, whatever the
\* environment contains at the time of the later call.
C8_ClientConstructedAtMostOnce ==
    /\ \A b \in Backends : nClients[b] =< 1
    /\ \A t \in Threads :
          (th[t].pc \in {"call", "done"} /\ th[t].cl # NoClient) =>
              /\ th[t].cl = client[BackendOf(th[t].op)]
              /\ \A i \in DOMAIN th[t].reqs : th[t].reqs[i].session = th[t].cl.id

\* C8 happens: a later call sent its requests through the one client although
\* the environment no longer gives the config the client was built from
C8_Witness ==
    \E t \in Threads :
        /\ Finished(t)
        /\ th[t].reqs # <<>>
        /\ nClients[BackendOf(th[t].op)] = 1
        /\ nConfigs[BackendOf(th[t].op)] = 1
        /\ from_env(BackendOf(th[t].op), env) # th[t].cfg

\* C9: under every interleaving of concurrent invocations on the same tools
\* instance, several arriving before the client exists included, at most one
\* domain client and one HTTP session are ever created for the backend, and
\* all invocations send their requests through that one instance.
C9_OneClientUnderConcurrency ==
    \A b \in Backends :
        /\ nClients[b] =< 1
        /\ \A t \in Threads :
              (BackendOf(th[t].op) = b /\ th[t].cl # NoClient) => th[t].cl.id = 1

\* C10: for any sequence of operations in one process the ServiceConfig of a
\* backend is built from the environment at most once, also when earlier
\* operations failed because the configuration was not complete yet.
C10_ConfigResolvedAtMostOnce ==
    \A b \in Backends : nConfigs[b] =< 1

DropTrailingSlash(s) ==
    IF s # <<>> /\ s[Len(s)] = "/" THEN SubSeq(s, 1, Len(s) - 1) ELSE s

DropLeadingSlash(s) == IF s # <<>> /\ s[1] = "/" THEN SubSeq(s, 2, Len(s)) ELSE s

\* s is made of slashes only
AllSlashes(s) == \A i \in DOMAIN s : s[i] = "/"

\* the longest prefix of s that does not end with a slash, and the longest
\* suffix that does not start with one
WithoutTrailingSlashes(s) ==
    CHOOSE p \in {SubSeq(s, 1, n) : n \in 0..Len(s)} :
        /\ p = <<>> \/ p[Len(p)] # "/"
        /\ AllSlashes(SubSeq(s, Len(p) + 1, Len(s)))

WithoutLeadingSlashes(s) ==
    CHOOSE q \in {SubSeq(s, n, Len(s)) : n \in 1..(Len(s) + 1)} :
        /\ q = <<>> \/ q[1] # "/"
        /\ AllSlashes(SubSeq(s, 1, Len(s) - Len(q)))

\* C12 (as the spec states it): the request URL is the base URL without
\* exactly one trailing slash, if it has one, a single slash, and the endpoint
\* without exactly one leading slash, if it has one; further slashes are kept.
C12_JoinTrimsOneSlash ==
    rc.phase = "answered" =>
        rc.req.url = DropTrailingSlash(rc.config.url) \o <<"/">>
                        \o DropLeadingSlash(rc.endpoint)

\* C12 (amended): the request URL is the base URL without all of its trailing
\* slashes, a single slash, and the endpoint without all of its leading
\* slashes.
C12_JoinTrimsAllSlashes ==
    rc.phase = "answered" =>
        rc.req.url = WithoutTrailingSlashes(rc.config.url) \o <<"/">>
                        \o WithoutLeadingSlashes(rc.endpoint)

\* C12 happens: a request went out for a base URL that ends with two slashes
\* and an endpoint that starts with two
C12_Witness ==
    /\ rc.phase = "answered"
    /\ Len(rc.config.url) > 2
    /\ AllSlashes(SubSeq(rc.config.url, Len(rc.config.url) - 1, Len(rc.config.url)))
    /\ Len(rc.endpoint) > 2
    /\ AllSlashes(SubSeq(rc.endpoint, 1, 2))

\* C13: the join gives the same URL whether or not the base URL ends with a
\* slash and whether or not the endpoint starts with one: for a base b
\* without trailing slash and an endpoint e without leading slash, each of
\* join(b + "/", "/" + e), join(b + "/", e), join(b, "/" + e) and join(b, e)
\* is b + "/" + e.
C13_JoinSlashInsensitive ==
    LET b == DropTrailingSlash(rc.config.url)
        e == DropLeadingSlash(rc.endpoint)
    IN (/\ rc.phase = "answered"
        /\ b = WithoutTrailingSlashes(b)
        /\ e = WithoutLeadingSlashes(e))
       => rc.req.url = b \o <<"/">> \o e

\* C13 happens: a base URL with its trailing slash met an endpoint with its
\* leading slash
C13_Witness ==
    /\ rc.phase = "answered"
    /\ rc.config.url = CloudUrl \o <<"/">>
    /\ rc.endpoint = <<"/", "rest/api/content">>
    /\ rc.req.url = CloudUrl \o <<"/", "rest/api/content">>

\* the base URL of config c names an Atlassian cloud site
CloudSite(c) == \E i \in DOMAIN c.url : c.url[i] = "atlassian.net"

\* C14: all cloud-dependent choices of a Jira client agree with whether the
\* base URL of its config contains atlassian.net: if it does, every request
\* goes to rest/api/3, create_issue addresses the assignee by id and get_user
\* sends accountId; if not, every request goes to rest/api/2, the assignee is
\* addressed by name and get_user sends username. The variants are never
\* mixed within one client.
C14_CloudChoicesAgree ==
    \A t \in Threads :
        (Finished(t) /\ th[t].op \in JiraOps) =>
            \A i \in DOMAIN th[t].reqs :
                LET q == th[t].reqs[i]
                    cloud == CloudSite(th[t].cfg)
                    a == th[t].args
                IN /\ Contains(q.url, IF cloud THEN "rest/api/3" ELSE "rest/api/2")
                   /\ ~Contains(q.url, IF cloud THEN "rest/api/2" ELSE "rest/api/3")
                   /\ (th[t].op = "jira_create_issue" /\ Truthy(a.assignee)) =>
                         q.kwargs["json"].f.fields.f.assignee =
                            (IF cloud THEN JObj([id |-> a.assignee])
                             ELSE JObj([name |-> a.assignee]))
                   /\ th[t].op = "jira_get_user_profile" =>
                         q.kwargs["params"] =
                            (IF cloud THEN JObj([accountId |-> a.user_identifier])
                             ELSE JObj([username |-> a.user_identifier]))

\* C14 happens: an issue with an assignee was created on a server (not cloud)
\* site
C14_Witness ==
    \E t \in Threads :
        /\ Finished(t)
        /\ th[t].op = "jira_create_issue"
        /\ Truthy(th[t].args.assignee)
        /\ th[t].cfg.url = ServerUrl
        /\ th[t].reqs # <<>>

\* the query holds one of the marks of CQL
HasCqlMark(q) == \E i \in DOMAIN q : q[i] \in {"=", "~", ">", "<", " AND ", " OR "}

\* the query in a siteSearch clause
SiteSearch(q) == <<"siteSearch ~ \"">> \o q \o <<"\"">>

\* the search tool has sent its request
Searched(t) == Finished(t) /\ th[t].op = "confluence_search" /\ th[t].reqs # <<>>

\* the CQL of the request of a search
SentCql(t) == th[t].reqs[1].kwargs["params"].f.cql

\* C15 (as the spec states it): for every query passed to the Confluence
\* search tool, a query with none of the marks =, ~, >, <, " AND ", " OR " is
\* sent as siteSearch ~ "<query>", and a query with one of them is sent
\* unchanged.
C15_BareQueryWrapped ==
    \A t \in Threads :
        Searched(t) =>
            SentCql(t) = (IF HasCqlMark(th[t].args.query) THEN th[t].args.query
                          ELSE SiteSearch(th[t].args.query))

\* C15 (amended): a non-empty query with none of the marks is sent as
\* siteSearch ~ "<query>"; a query with one of the marks, and the empty query,
\* are sent unchanged.
C15_NonEmptyBareQueryWrapped ==
    \A t \in Threads :
        Searched(t) =>
            SentCql(t) = (IF th[t].args.query = <<>> \/ HasCqlMark(th[t].args.query)
                          THEN th[t].args.query
                          ELSE SiteSearch(th[t].args.query))

\* C15 happens: a query with a lower-case " and ", which is no mark, was
\* wrapped
C15_Witness ==
    \E t \in Threads :
        /\ Searched(t)
        /\ th[t].args.query = <<"a", " and ", "b">>
        /\ SentCql(t) = <<"siteSearch ~ \"", "a", " and ", "b", "\"">>

\* the version number of the page in an answer of the remote, 0 without one
\* (the version the update tool passes on to the domain client)
AnsweredVersion(resp) ==
    IF resp.body \in {"empty", "invalid"} THEN 0
    ELSE IF HasKey(RemoteJson(resp.body), "version")
    THEN RemoteJson(resp.body).f.version.f.number
    ELSE 0

\* the requests of a finished call that have the given method
RequestsBy(t, method) == {i \in DOMAIN th[t].reqs : th[t].reqs[i].method = method}

\* the domain client's update_page was called in the call of thread t
PageUpdated(t) ==
    Finished(t) /\ th[t].op = "confluence_update_page" /\ Len(th[t].reqs) = 2

\* C16: a call of the Confluence domain client's update_page with version
\* number v issues a single PUT whose body carries version.number = v + 1, for
\* the page id given, with ancestors present only when a parent id is given.
C16_UpdateSendsNextVersion ==
    \A t \in Threads :
        PageUpdated(t) =>
            LET v == AnsweredVersion(th[t].resps[1])
                q == th[t].reqs[2]
                a == th[t].args
                body == q.kwargs["json"]
            IN /\ RequestsBy(t, "PUT") = {2}
               /\ <<q.url[Len(q.url)]>> = a.page_id
               /\ DOMAIN q.kwargs = {"json"}
               /\ body.f.id = a.page_id
               /\ body.f.version = JObj([number |-> v + 1])
               /\ ("ancestors" \in DOMAIN body.f) <=> Truthy(a.parent_id)
               /\ Truthy(a.parent_id) =>
                     body.f.ancestors = JArr(<<JObj([id |-> a.parent_id])>>)

\* C16 happens: the page was at version 3 and the PUT carried version 4, under
\* a parent
C16_Witness ==
    \E t \in Threads :
        /\ PageUpdated(t)
        /\ AnsweredVersion(th[t].resps[1]) = 3
        /\ th[t].reqs[2].kwargs["json"].f.version = JObj([number |-> 4])
        /\ Truthy(th[t].args.parent_id)

DeleteOps == {"jira_delete_issue", "confluence_delete_page"}

\* a delete tool has sent its request
DeleteCalled(t) == Finished(t) /\ th[t].op \in DeleteOps /\ th[t].reqs # <<>>

\* the DELETE succeeded: a 2xx answer
DeleteSucceeded(r) ==
    ~r.fail /\ 200 =< r.status /\ r.status =< 299 /\ r.body # "invalid"

\* the DELETE failed with an API error: no answer, or a status outside 2xx
\* other than 401 and 403
DeleteFailed(r) ==
    r.fail \/ (~(200 =< r.status /\ r.status =< 299) /\ r.status \notin {401, 403})

\* the envelope the tool returns when the domain client returned true, false
ReportsDeleted(r) ==
    /\ r.kind = "str"
    /\ HasKey(r.json, "message")
    /\ \/ Contains(r.json.f.message, " has been deleted successfully.")
       \/ Contains(r.json.f.message, " deleted successfully")

ReportsNotDeleted(r) ==
    /\ r.kind = "str"
    /\ \/ /\ HasKey(r.json, "error")
          /\ Contains(r.json.f.error, ". Issue may not exist or you may not have permission.")
       \/ /\ HasKey(r.json, "message")
          /\ Contains(r.json.f.message, "Unable to delete page ")

\* C17: delete_issue and delete_page of the domain clients issue a single
\* DELETE, return true when it succeeds and false, without raising, when it
\* fails with an API error (a status outside 2xx other than 401 and 403, or a
\* transport failure); the delete tools then return a failure envelope and
\* never raise.
C17_DeleteSwallowsApiError ==
    \A t \in Threads :
        DeleteCalled(t) =>
            /\ Len(th[t].reqs) = 1
            /\ th[t].reqs[1].method = "DELETE"
            /\ th[t].result.kind = "str"
            /\ DeleteSucceeded(th[t].resps[1]) => ReportsDeleted(th[t].result)
            /\ DeleteFailed(th[t].resps[1]) => ReportsNotDeleted(th[t].result)

\* the tools that hand on a list, and those that hand on the remote's document
ListOps ==
    {"confluence_search", "confluence_get_page_labels", "confluence_add_page_label",
     "jira_get_transitions", "jira_get_projects"}

PassThroughOps == {"jira_get_issue", "jira_search_issues"}

\* the call failed: it could send no request, or a request of it got no
\* answer or a 4xx or 5xx answer
CallFailed(t) ==
    \/ th[t].reqs = <<>>
    \/ \E i \in DOMAIN th[t].resps :
          \/ th[t].resps[i].fail
          \/ 400 =< th[t].resps[i].status /\ th[t].resps[i].status =< 599

\* C18 (as the spec states it): the result of every operation of the tools,
\* on success as on failure, decodes to a JSON mapping, never to a bare list
\* or scalar, for the list-valued operations too.
C18_ResultIsMapping ==
    \A t \in Threads :
        Finished(t) => (th[t].result.kind = "str" /\ IsObj(th[t].result.json))

\* C18 (amended): a failure result of every operation decodes to a JSON
\* mapping. On success the list-valued operations (Confluence search, page
\* labels and add label, Jira transitions and projects) return a bare list,
\* get_issue and search_issues return the remote's document as it is (a list
\* when the remote sent one), and every other operation returns a mapping.
C18_ResultIsMappingOrList ==
    \A t \in Threads :
        Finished(t) =>
            LET doc == th[t].result.json
            IN /\ th[t].result.kind = "str"
               /\ CallFailed(t) => IsObj(doc)
               /\ th[t].op \in ListOps => (IsArr(doc) <=> ~HasKey(doc, "error"))
               /\ (th[t].op \in PassThroughOps /\ ~HasKey(doc, "error")) =>
                     (th[t].reqs # <<>> /\ doc = BestEffortBody(th[t].resps[1]))
               /\ th[t].op \notin (ListOps \cup PassThroughOps) => IsObj(doc)

\* C18 happens: the labels of a page came back as a bare list with a label
\* in it
C18_Witness ==
    \E t \in Threads :
        /\ Finished(t)
        /\ th[t].op = "confluence_get_page_labels"
        /\ IsArr(th[t].result.json)
        /\ th[t].result.json.a # <<>>

\* {type: "doc", version: 1, content: [{type: "paragraph", content: [{type:
\* "text", text: <string>}]}]}
TextNode(text) == [j |-> "object", f |-> [type |-> <<"text">>, text |-> text]]

Paragraph(text) ==
    [j |-> "object",
     f |-> [type |-> <<"paragraph">>, content |-> [j |-> "array", a |-> <<TextNode(text)>>]]]

DocShape(text) ==
    [j |-> "object",
     f |-> [type |-> <<"doc">>, version |-> 1,
            content |-> [j |-> "array", a |-> <<Paragraph(text)>>]]]

\* a Jira tool has sent its first request: the write
JiraWrote(t, op) == Finished(t) /\ th[t].op = op /\ th[t].reqs # <<>>

\* the JSON body of the first request of the call of thread t
WrittenBody(t) == th[t].reqs[1].kwargs["json"]

\* C19: every Jira write that carries free text (the description of
\* create_issue, the body of add_comment, the comment of transition_issue)
\* sends the text, unchanged, inside the document shape {type: doc, version:
\* 1, content: [{type: paragraph, content: [{type: text, text: <string>}]}]},
\* for cloud and for server configs alike; a plain string is never sent.
C19_FreeTextAsDocument ==
    \A t \in Threads :
        /\ JiraWrote(t, "jira_create_issue") =>
              /\ th[t].reqs[1].method = "POST"
              /\ IF Truthy(th[t].args.description)
                 THEN WrittenBody(t).f.fields.f.description = DocShape(th[t].args.description)
                 ELSE "description" \notin DOMAIN WrittenBody(t).f.fields.f
        /\ JiraWrote(t, "jira_add_comment") =>
              /\ th[t].reqs[1].method = "POST"
              /\ WrittenBody(t).f.body = DocShape(th[t].args.comment)
        /\ JiraWrote(t, "jira_transition_issue") =>
              /\ th[t].reqs[1].method = "POST"
              /\ IF Truthy(th[t].args.comment)
                 THEN WrittenBody(t).f.update =
                         JObj([comment |-> JArr(<<JObj([add |->
                                 JObj([body |-> DocShape(th[t].args.comment)])])>>)])
                 ELSE "update" \notin DOMAIN WrittenBody(t).f

\* C19 happens: an issue on a server (not cloud) site was transitioned with a
\* comment
C19_Witness ==
    \E t \in Threads :
        /\ JiraWrote(t, "jira_transition_issue")
        /\ Truthy(th[t].args.comment)
        /\ th[t].cfg.url = ServerUrl
        /\ "update" \in DOMAIN WrittenBody(t).f

\* the label tool has sent its first request
LabelAdded(t) ==
    Finished(t) /\ th[t].op = "confluence_add_page_label" /\ th[t].reqs # <<>>

\* the request raised: no answer, or a 4xx or 5xx answer, or a body that is
\* no JSON
RequestRaised(r) ==
    r.fail \/ (400 =< r.status /\ r.status =< 599) \/ r.body = "invalid"

\* the results list in an answer of the remote, the empty list without one
AnsweredResults(r) ==
    IF r.body # "empty" /\ HasKey(RemoteJson(r.body), "results")
    THEN RemoteJson(r.body).f.results
    ELSE [j |-> "array", a |-> <<>>]

\* the URL of the label endpoint of a page on the site of config c
LabelUrl(c, page_id) ==
    WithoutTrailingSlashes(c.url) \o <<"/", "rest/api", "/content/">> \o page_id
        \o <<"/label">>

UpdatePageCalled(t) ==
    Finished(t) /\ th[t].op = "confluence_update_page" /\ th[t].reqs # <<>>

\* the URL of a page on the site of config c
PageUrl(c, page_id) ==
    WithoutTrailingSlashes(c.url) \o <<"/", "rest/api", "/content/">> \o page_id

\* the error envelope of the update tool
UpdatePageError(t) ==
    /\ th[t].result.kind = "str"
    /\ HasKey(th[t].result.json, "error")
    /\ HasKey(th[t].result.json, "page_id")
    /\ th[t].result.json.f.page_id = th[t].args.page_id

C21_WitnessNoVersion ==
    \E t \in Threads :
        /\ UpdatePageCalled(t)
        /\ Len(th[t].reqs) = 2
        /\ th[t].resps[1].body = "empty"
        /\ th[t].reqs[2].kwargs["json"].f.version = JObj([number |-> 1])

\* the DELETE of a delete tool was answered 401 or 403
DeleteDenied(t) ==
    /\ DeleteCalled(t)
    /\ ~th[t].resps[1].fail
    /\ th[t].resps[1].status \in {401, 403}

\* what the domain client's delete operation gave the tool in the call of
\* thread t: a boolean or the exception that left it
DomainDeleteOutcome(t) ==
    IF th[t].op = "jira_delete_issue"
    THEN JiraClient_delete_issue(th[t].cl, th[t].args.issue_key, th[t].resps[1],
                                 "RequestException").out
    ELSE ConfluenceClient_delete_page(th[t].cl, th[t].args.page_id, th[t].resps[1],
                                      "RequestException").out

\* C22: a 401 or 403 answer to the DELETE of delete_issue or delete_page is
\* not turned into a false result by the domain client: AuthenticationError
\* leaves the domain client's delete operation, and the delete tool reports it
\* through the envelope of its except clause, which has an error field with
\* the error's text and echoes issue_key (Jira) or page_id (Confluence).
C22_DeleteAuthErrorPropagates ==
    \A t \in Threads :
        DeleteDenied(t) =>
            LET out == DomainDeleteOutcome(t)
                doc == th[t].result.json
            IN /\ ~out.ok
               /\ out.exc.type = "AuthenticationError"
               /\ th[t].result.kind = "str"
               /\ ~ReportsDeleted(th[t].result)
               /\ ~ReportsNotDeleted(th[t].result)
               /\ HasKey(doc, "error")
               /\ IF th[t].op = "jira_delete_issue"
                  THEN /\ doc.f.error = <<"Failed to delete issue ">> \o th[t].args.issue_key
                                           \o <<": ">> \o out.exc.msg
                       /\ HasKey(doc, "issue_key")
                       /\ doc.f.issue_key = th[t].args.issue_key
                  ELSE /\ doc.f.error = out.exc.msg
                       /\ HasKey(doc, "page_id")
                       /\ doc.f.page_id = th[t].args.page_id

\* C22 happens: the DELETE of an issue was answered 403 and the envelope
\* with the error and the issue key came back
C22_Witness ==
    \E t \in Threads :
        /\ DeleteDenied(t)
        /\ th[t].op = "jira_delete_issue"
        /\ th[t].resps[1].status = 403
        /\ HasKey(th[t].result.json, "error")
        /\ Contains(th[t].result.json.f.error, "Access denied: ")
        /\ th[t].result.json.f.issue_key = Key

WriteThenFetchOps == {"jira_update_issue", "jira_transition_issue"}

\* a Jira tool that writes and re-fetches has sent its first request
WroteIssue(t) == Finished(t) /\ th[t].op \in WriteThenFetchOps /\ th[t].reqs # <<>>

\* the URL of an issue on the site of config c
IssueUrl(c, issue_key) ==
    WithoutTrailingSlashes(c.url)
        \o <<"/", IF CloudSite(c) THEN "rest/api/3" ELSE "rest/api/2", "/issue/">>
        \o issue_key

\* the write request each of the two tools sends first
IsWriteRequest(t, q) ==
    IF th[t].op = "jira_update_issue"
    THEN /\ q.method = "PUT"
         /\ q.url = IssueUrl(th[t].cfg, th[t].args.issue_key)
         /\ q.kwargs = ("json" :> JObj([fields |-> th[t].args.fields]))
    ELSE /\ q.method = "POST"
         /\ q.url = IssueUrl(th[t].cfg, th[t].args.issue_key) \o <<"/transitions">>
         /\ DOMAIN q.kwargs = {"json"}
         /\ q.kwargs["json"].f.transition = JObj([id |-> th[t].args.transition_id])

\* the success envelope of the two tools around the issue that was fetched
WriteSuccessEnvelope(t, issue) ==
    /\ th[t].result.kind = "str"
    /\ th[t].result.json =
          JObj([message |-> IF th[t].op = "jira_update_issue"
                            THEN <<"Issue updated successfully">>
                            ELSE <<"Issue ">> \o th[t].args.issue_key
                                 \o <<" transitioned successfully">>,
                issue |-> issue])

\* the error envelope of the two tools
WriteErrorEnvelope(t) ==
    /\ th[t].result.kind = "str"
    /\ HasKey(th[t].result.json, "error")
    /\ ~HasKey(th[t].result.json, "message")
    /\ HasKey(th[t].result.json, "issue_key")
    /\ th[t].result.json.f.issue_key = th[t].args.issue_key

C23_WitnessSuccess ==
    \E t \in Threads :
        /\ WroteIssue(t)
        /\ th[t].op = "jira_transition_issue"
        /\ Len(th[t].reqs) = 2
        /\ th[t].resps[2] = [fail |-> FALSE, status |-> 200, body |-> "object"]
        /\ WriteSuccessEnvelope(t, Entity)

====
